---- MODULE Spec2Model ----
(***************************************************************************)
(* Model of the battleships server: the shared State (users, connection    *)
(* index, games, outbound event queue) behind one RwLock, the handlers     *)
(* handle_event / handle_disconnect of lib.rs, Game::add_ships of game.rs  *)
(* and the periodic drain task of main.rs.                                 *)
(*                                                                         *)
(* Rust values are modelled as follows.                                    *)
(*   Option<T>      : the empty sequence (None) or a one-element sequence  *)
(*   HashMap<K, V>  : a function whose DOMAIN is the set of present keys   *)
(*   Uuid::new_v4() : a value never issued before, named by the address    *)
(*                    that asked for it and how many it had asked for      *)
(*   a panic        : the task stops; a panic raised while the write guard *)
(*                    of the RwLock is alive poisons the lock, after which *)
(*                    every read()/write().unwrap() panics in turn         *)
(***************************************************************************)
EXTENDS Integers, Sequences, FiniteSets, TLC

\* ------------------------------------------------------------------ bounds
BOARD_SIZE == 10

MaxUsers == 3
MaxGames == 2
MaxQueue == 4
MaxBoardShips == 2
MaxShips == 2

Addrs == {"a1", "a2", "a3"}
\* The name each client registers with.
NameOf(a) == CASE a = "a1" -> "Alice" [] a = "a2" -> "Bob" [] OTHER -> "Carol"
UserIds == Addrs \X (1..MaxUsers)
GameIds == Addrs \X (1..MaxGames)
\* A room id no game ever has.
NoSuchGame == <<"none", 0>>

\* ------------------------------------------------------------------ Option, HashMap
None == <<>>
Some(x) == <<x>>
IsSome(o) == o # <<>>
Unwrap(o) == o[1]

EmptyMap == <<>>
Insert(m, k, v) == [x \in (DOMAIN m) \cup {k} |-> IF x = k THEN v ELSE m[x]]
Remove(m, k) == [x \in (DOMAIN m) \ {k} |-> m[x]]
ContainsKey(m, k) == k \in DOMAIN m

\* ------------------------------------------------------------------ game.rs
Empty == <<"Empty">>
Alive(i) == <<"Alive", i>>

NumCells == BOARD_SIZE * BOARD_SIZE

BoardDefault ==
    [ships |-> <<>>, cells |-> [k \in 0..(NumCells - 1) |-> Empty]]

GameCreate(id, p1, coin) ==
    [id |-> id, status |-> "Waiting", player1 |-> Some(p1.id), player2 |-> None,
     is_p1_turn |-> coin, p1_board |-> BoardDefault, p2_board |-> BoardDefault]

\* set_cell with the two coordinates taken for each other.
set_cell_transposed(b, x, y, cell) ==
    LET k == y + x * BOARD_SIZE IN
    IF k >= NumCells
    THEN [board |-> b, panic |-> TRUE]
    ELSE [board |-> [b EXCEPT !.cells[k] = cell], panic |-> FALSE]

\* Board::set_cell: indexing the Vec panics when the index is out of range.
set_cell(b, x, y, cell) ==
    LET k == x + y * BOARD_SIZE IN
    IF k >= NumCells
    THEN [board |-> b, panic |-> TRUE]
    ELSE [board |-> [b EXCEPT !.cells[k] = cell], panic |-> FALSE]

\* The inner loop of add_ships: n cells remain to be written for ship i.
RECURSIVE WriteShip(_, _, _, _, _, _)
WriteShip(b, x, y, vertical, n, i) ==
    IF n = 0
    THEN [board |-> b, panic |-> FALSE]
    ELSE LET r == set_cell(b, x, y, Alive(i)) IN
         IF r.panic
         THEN r
         ELSE IF vertical
              THEN WriteShip(r.board, x, y + 1, vertical, n - 1, i)
              ELSE WriteShip(r.board, x + 1, y, vertical, n - 1, i)

\* The outer loop of add_ships over ships[k..], i being the running index.
RECURSIVE PlaceFrom(_, _, _, _)
PlaceFrom(b, ships, k, i) ==
    IF k > Len(ships)
    THEN [board |-> b, panic |-> FALSE]
    ELSE LET ship == ships[k]
             r == WriteShip(b, ship.position.x, ship.position.y,
                            ship.is_vertical, ship.hp, i)
         IN IF r.panic
            THEN r
            ELSE PlaceFrom([r.board EXCEPT !.ships = Append(@, ship)],
                           ships, k + 1, i + 1)

add_ships(game, ships, user_id) ==
    IF user_id = Unwrap(game.player1)
    THEN LET r == PlaceFrom(game.p1_board, ships, 1, 0) IN
         [game |-> [game EXCEPT !.p1_board = r.board], panic |-> r.panic]
    ELSE LET r == PlaceFrom(game.p2_board, ships, 1, 0) IN
         [game |-> [game EXCEPT !.p2_board = r.board], panic |-> r.panic]

\* ------------------------------------------------------------------ lib.rs: events
All(json) == [kind |-> "All", to |-> None, json |-> json]
UserEvent(addr, json) == [kind |-> "User", to |-> Some(addr), json |-> json]

\* The serialized message. data, a JSON array or object, is kept as a set of
\* records: an object as the set of that one record, an array whose order is
\* HashMap order as the set of its entries, an array with a fixed order as
\* the set of its entries each tagged with its index.
create_event_json(data, event_type) ==
    [type |-> event_type, data |-> data, id |-> 0]

StateDefault ==
    [events |-> <<>>, user_ids |-> EmptyMap, users |-> EmptyMap, games |-> EmptyMap]

get_user(s, user_id) ==
    IF ContainsKey(s.users, user_id) THEN Some(s.users[user_id]) ELSE None

get_user_by_addr(s, addr) ==
    IF ContainsKey(s.user_ids, addr) THEN get_user(s, s.user_ids[addr]) ELSE None

update_user(s, user) ==
    [s EXCEPT !.users = Insert(@, user.id, user)]

add_event(s, event) ==
    [s EXCEPT !.events = Append(@, event)]

\* The array of {name, wins}, one entry per user: each distinct entry is
\* kept with the number of times it occurs.
WinnersJson(s) ==
    LET entry(u) == [name |-> s.users[u].name, wins |-> s.users[u].wins]
        times(u) == Cardinality({v \in DOMAIN s.users : entry(v) = entry(u)})
    IN {[name |-> entry(u).name, wins |-> entry(u).wins, times |-> times(u)] :
            u \in DOMAIN s.users}

add_update_winners_event(s) ==
    add_event(s, All(create_event_json(WinnersJson(s), "update_winners")))

\* roomUsers: [player1, player2] filtered to the ids that resolve to a user.
RoomUsers(s, game) ==
    LET one(o) == IF IsSome(o) /\ IsSome(get_user(s, Unwrap(o)))
                  THEN <<[name |-> Unwrap(get_user(s, Unwrap(o))).name,
                          index |-> Unwrap(o)]>>
                  ELSE <<>>
    IN one(game.player1) \o one(game.player2)

\* The array of rooms without the filter on GameStatus::Waiting.
RoomsJson_unfiltered(s) ==
    {[roomId |-> s.games[g].id, roomUsers |-> RoomUsers(s, s.games[g])] :
        g \in DOMAIN s.games}

\* The array of waiting rooms, as the set of its entries (room ids are keys).
RoomsJson(s) ==
    {[roomId |-> s.games[g].id, roomUsers |-> RoomUsers(s, s.games[g])] :
        g \in {h \in DOMAIN s.games : s.games[h].status = "Waiting"}}

add_update_room_event(s) ==
    add_event(s, All(create_event_json(RoomsJson(s), "update_room")))

\* add_user that files the user under its id but not under its address.
add_user_no_index(s, user) ==
    LET us == IF ContainsKey(s.users, user.id)
              THEN s.users
              ELSE Insert(s.users, user.id, user)
        s1 == [s EXCEPT !.users = us]
    IN [s |-> add_update_room_event(add_update_winners_event(s1)),
        user |-> us[user.id]]

add_user(s, user) ==
    LET ids == IF ContainsKey(s.user_ids, user.addr)
               THEN s.user_ids
               ELSE Insert(s.user_ids, user.addr, user.id)
        user_id == ids[user.addr]
        us == IF ContainsKey(s.users, user_id)
              THEN s.users
              ELSE Insert(s.users, user_id, user)
        s1 == [s EXCEPT !.user_ids = ids, !.users = us]
    IN [s |-> add_update_room_event(add_update_winners_event(s1)),
        user |-> us[user_id]]

remove_user_by_addr(s, addr) ==
    IF ContainsKey(s.user_ids, addr)
    THEN LET user_id == s.user_ids[addr] IN
         [s |-> [s EXCEPT !.user_ids = Remove(@, addr),
                          !.users = Remove(@, user_id)],
          user |-> get_user(s, user_id)]
    ELSE [s |-> s, user |-> None]

\* JoinSeat that does not store the room in the user's record.
JoinSeat_no_room_record(s, game_id, user, is_owner, coin) ==
    IF is_owner
    THEN [s |-> add_update_room_event(
                    [s EXCEPT !.games =
                         Insert(@, game_id, GameCreate(game_id, user, coin))]),
          panic |-> FALSE]
    ELSE IF ~ContainsKey(s.games, game_id)
    THEN [s |-> s, panic |-> TRUE]
    ELSE LET s1 == [s EXCEPT !.games[game_id].player2 = Some(user.id),
                             !.games[game_id].status = "PlacingShips"]
             game == s1.games[game_id]
             json == {[at |-> 0, idGame |-> game.id, idPlayer |-> game.player1],
                      [at |-> 1, idGame |-> game.id, idPlayer |-> game.player2]}
             s2 == add_event(s1, All(create_event_json(json, "create_game")))
         IN [s |-> add_update_room_event(s2), panic |-> FALSE]

\* JoinSeat whose joiner's branch puts a session that had left Waiting back
\* into it.
JoinSeat_reopens(s, game_id, user, is_owner, coin) ==
    LET finish(sx) ==
            add_update_room_event(
                update_user(sx, [user EXCEPT !.in_room = Some(game_id)]))
    IN
    IF is_owner
    THEN [s |-> finish([s EXCEPT !.games =
                            Insert(@, game_id, GameCreate(game_id, user, coin))]),
          panic |-> FALSE]
    ELSE IF ~ContainsKey(s.games, game_id)
    THEN [s |-> s, panic |-> TRUE]
    ELSE LET s1 == [s EXCEPT !.games[game_id].player2 = Some(user.id),
                             !.games[game_id].status =
                                 IF @ = "Waiting" THEN "PlacingShips" ELSE "Waiting"]
             game == s1.games[game_id]
             json == {[at |-> 0, idGame |-> game.id, idPlayer |-> game.player1],
                      [at |-> 1, idGame |-> game.id, idPlayer |-> game.player2]}
             s2 == add_event(s1, All(create_event_json(json, "create_game")))
         IN [s |-> finish(s2), panic |-> FALSE]

\* join_game past its "USER IN ROOM" return: the owner's branch inserts a new
\* game, the joiner's branch takes the second seat of game_id.
JoinSeat(s, game_id, user, is_owner, coin) ==
    LET finish(sx) ==
            add_update_room_event(
                update_user(sx, [user EXCEPT !.in_room = Some(game_id)]))
    IN
    IF is_owner
    THEN [s |-> finish([s EXCEPT !.games =
                            Insert(@, game_id, GameCreate(game_id, user, coin))]),
          panic |-> FALSE]
    ELSE IF ~ContainsKey(s.games, game_id)
    THEN [s |-> s, panic |-> TRUE]
    ELSE LET s1 == [s EXCEPT !.games[game_id].player2 = Some(user.id),
                             !.games[game_id].status = "PlacingShips"]
             game == s1.games[game_id]
             json == {[at |-> 0, idGame |-> game.id, idPlayer |-> game.player1],
                      [at |-> 1, idGame |-> game.id, idPlayer |-> game.player2]}
             s2 == add_event(s1, All(create_event_json(json, "create_game")))
         IN [s |-> finish(s2), panic |-> FALSE]

\* join_game with the room check left out.
join_game_unchecked(s, game_id, user, is_owner, coin) ==
    JoinSeat(s, game_id, user, is_owner, coin)

\* join_game refusing every user that ever had a room.
join_game_no_recheck(s, game_id, user, is_owner, coin) ==
    IF IsSome(user.in_room)
    THEN [s |-> s, panic |-> FALSE]
    ELSE JoinSeat(s, game_id, user, is_owner, coin)

\* coin is the value rand::random draws in Game::create (read by the owner's
\* branch only).
join_game(s, game_id, user, is_owner, coin) ==
    IF IsSome(user.in_room) /\ ContainsKey(s.games, Unwrap(user.in_room))
    THEN [s |-> s, panic |-> FALSE]
    ELSE JoinSeat(s, game_id, user, is_owner, coin)

create_game(s, user, game_id, coin) ==
    join_game(s, game_id, user, TRUE, coin)

add_ships_to_game(s, user, ships) ==
    IF ~IsSome(user.in_room)
    THEN [s |-> s, panic |-> TRUE]
    ELSE IF ~ContainsKey(s.games, Unwrap(user.in_room))
    THEN [s |-> s, panic |-> TRUE]
    ELSE LET room == Unwrap(user.in_room)
             r == add_ships(s.games[room], ships, user.id)
         IN [s |-> [s EXCEPT !.games[room] = r.game], panic |-> r.panic]

\* handle_disconnect that leaves the user's game in the directory.
handle_disconnect_keeps_game(s, addr) ==
    LET r == remove_user_by_addr(s, addr) IN
    IF IsSome(r.user)
    THEN LET user == Unwrap(r.user)
             s1 == IF IsSome(user.in_room) THEN add_update_room_event(r.s) ELSE r.s
         IN add_update_winners_event(s1)
    ELSE r.s

\* handle_disconnect that removes the game without an update_room event.
handle_disconnect_no_room_event(s, addr) ==
    LET r == remove_user_by_addr(s, addr) IN
    IF IsSome(r.user)
    THEN LET user == Unwrap(r.user)
             s1 == IF IsSome(user.in_room)
                   THEN [r.s EXCEPT !.games = Remove(@, Unwrap(user.in_room))]
                   ELSE r.s
         IN add_update_winners_event(s1)
    ELSE r.s

\* The body of handle_disconnect once the write lock is held.
handle_disconnect(s, addr) ==
    LET r == remove_user_by_addr(s, addr) IN
    IF IsSome(r.user)
    THEN LET user == Unwrap(r.user)
             s1 == IF IsSome(user.in_room)
                   THEN add_update_room_event(
                            [r.s EXCEPT !.games = Remove(@, Unwrap(user.in_room))])
                   ELSE r.s
         IN add_update_winners_event(s1)
    ELSE r.s

\* ------------------------------------------------------------------ inputs
MkShip(x, y, vertical, hp) ==
    [position |-> [x |-> x, y |-> y], is_vertical |-> vertical,
     ship_type |-> IF hp = 1 THEN "small" ELSE "medium", hp |-> hp]

Coords == {0, 9}
Hps == {1, 2}
ShipSet == {MkShip(x, y, v, hp) : x \in Coords, y \in Coords, v \in BOOLEAN, hp \in Hps}
AllShipLists == UNION {[1..k -> ShipSet] : k \in 0..MaxShips}

\* The ship lists clients send in Spec: one that fits, one that runs past the
\* right edge, one that runs past the bottom edge.
FewShipLists ==
    {<<MkShip(0, 0, FALSE, 1)>>}

\* ------------------------------------------------------------------ state
VARIABLES
    state,              \* the State behind the RwLock
    poisoned,           \* the RwLock is poisoned
    conn,               \* per address: "closed", "open", or "dead" (task panicked)
    regs,               \* per address: number of user uuids issued to it
    created,            \* per address: number of game uuids issued to it
    last_update_room,   \* data of the update_room event enqueued last
    last_ships,         \* ships of the add_ships message handled last
    drain               \* Some record while the drain task is inside its
                        \* dequeue loop, the write guard in hand: the queue
                        \* it found (start) and the events it has sent (sent)

vars == <<state, poisoned, conn, regs, created, last_update_room, last_ships, drain>>

\* Entries of peer_map: inserted on connect, removed after handle_disconnect.
peer_map == {a \in Addrs : conn[a] # "closed"}

Init ==
    /\ state = StateDefault
    /\ poisoned = FALSE
    /\ conn = [a \in Addrs |-> "closed"]
    /\ regs = [a \in Addrs |-> 0]
    /\ created = [a \in Addrs |-> 0]
    /\ last_update_room = None
    /\ last_ships = None
    /\ drain = None

RECURSIVE Sum(_, _)
Sum(f, S) == IF S = {} THEN 0 ELSE LET x == CHOOSE y \in S : TRUE IN f[x] + Sum(f, S \ {x})

Max(S) == CHOOSE x \in S : \A y \in S : y <= x

\* The update_room data enqueued last, after the queue went from old to new.
LastRoomUpdate(old, new, prev) ==
    LET added == {k \in (Len(old.events) + 1)..Len(new.events) :
                     new.events[k].json.type = "update_room"}
    IN IF added = {} THEN prev ELSE Some(new.events[Max(added)].json.data)

\* Repeated add_ships grow a board's ship list without limit: the ships held
\* by the two boards of a game are capped.
BoardsBounded(s) ==
    \A g \in DOMAIN s.games :
        Len(s.games[g].p1_board.ships) + Len(s.games[g].p2_board.ships) <= MaxBoardShips

\* A handler body ran under the write lock and left s; a panic inside it ends
\* the task and poisons the lock.
Commit(a, s, panic) ==
    /\ Len(s.events) <= MaxQueue
    /\ BoardsBounded(s)
    /\ state' = s
    /\ poisoned' = panic
    /\ conn' = IF panic THEN [conn EXCEPT ![a] = "dead"] ELSE conn
    /\ last_update_room' = LastRoomUpdate(state, s, last_update_room)
    /\ UNCHANGED drain

\* A panic of the connection's task outside the write lock: the task ends
\* without handle_disconnect and without leaving peer_map.
TaskPanic(a) ==
    /\ conn' = [conn EXCEPT ![a] = "dead"]
    /\ UNCHANGED <<state, poisoned, regs, created, last_update_room, drain>>

\* Once the lock is poisoned every handler and the drain task panic at their
\* first read()/write().unwrap() and State is never touched again: the model
\* stops there. While the drain task holds the write guard, the read() and
\* write() of every handler wait.
Serving(a) == ~poisoned /\ conn[a] = "open" /\ drain = None

\* ------------------------------------------------------------------ main.rs: connections
Connect(a) ==
    /\ ~poisoned
    /\ conn[a] = "closed"
    /\ conn' = [conn EXCEPT ![a] = "open"]
    /\ UNCHANGED <<state, poisoned, regs, created, last_update_room, last_ships, drain>>

\* ------------------------------------------------------------------ lib.rs: handle_event
\* handle_event reads the sender's user under the read lock and then takes the
\* write lock. The entry it reads is written only by the sender's own task
\* (add_user, update_user and remove_user_by_addr are all called with that
\* user), and a task handles one message at a time, so the read and the write
\* are taken as one step.

HandleReg(a, username) ==
    /\ Serving(a)
    /\ LET found == get_user_by_addr(state, a) IN
       IF IsSome(found)
       THEN UNCHANGED vars
       ELSE /\ Sum(regs, Addrs) < MaxUsers
            /\ regs' = [regs EXCEPT ![a] = @ + 1]
            /\ UNCHANGED <<created, last_ships>>
            /\ LET user == [id |-> <<a, regs[a] + 1>>, name |-> username,
                            addr |-> a, wins |-> 0, in_room |-> None]
                   r == add_user(state, user)
                   s1 == add_update_room_event(r.s)
                   data == {[name |-> r.user.name, index |-> r.user.id,
                             error |-> FALSE, errorText |-> ""]}
                   s2 == add_event(s1, UserEvent(r.user.addr,
                                                 create_event_json(data, "reg")))
               IN Commit(a, s2, FALSE)

HandleCreate(a, coin) ==
    /\ Serving(a)
    /\ LET found == get_user_by_addr(state, a) IN
       IF ~IsSome(found)
       THEN TaskPanic(a) /\ UNCHANGED last_ships
       ELSE /\ Sum(created, Addrs) < MaxGames
            /\ created' = [created EXCEPT ![a] = @ + 1]
            /\ UNCHANGED <<regs, last_ships>>
            /\ LET r == create_game(state, Unwrap(found), <<a, created[a] + 1>>, coin)
               IN Commit(a, r.s, r.panic)

HandleAddUser(a, game_id) ==
    /\ Serving(a)
    /\ LET found == get_user_by_addr(state, a) IN
       IF ~IsSome(found)
       THEN TaskPanic(a) /\ UNCHANGED last_ships
       ELSE /\ UNCHANGED <<regs, created, last_ships>>
            /\ LET r == join_game(state, game_id, Unwrap(found), FALSE, FALSE)
               IN Commit(a, r.s, r.panic)

HandleAddShips(a, ships) ==
    /\ Serving(a)
    /\ last_ships' = Some(ships)
    /\ LET found == get_user_by_addr(state, a) IN
       IF ~IsSome(found)
       THEN TaskPanic(a)
       ELSE /\ UNCHANGED <<regs, created>>
            /\ LET r == add_ships_to_game(state, Unwrap(found), ships)
               IN Commit(a, r.s, r.panic)

\* ------------------------------------------------------------------ lib.rs: handle_disconnect
Disconnect(a) ==
    /\ Serving(a)
    /\ LET s == handle_disconnect(state, a) IN
       /\ Len(s.events) <= MaxQueue
       /\ state' = s
       /\ conn' = [conn EXCEPT ![a] = "closed"]
       /\ last_update_room' = LastRoomUpdate(state, s, last_update_room)
       /\ UNCHANGED <<poisoned, regs, created, last_ships, drain>>

\* ------------------------------------------------------------------ main.rs: tick
\* The peers an event is sent to.
Recipients(event) ==
    IF event.kind = "All" THEN peer_map ELSE {a \in peer_map : Some(a) = event.to}

\* unbounded_send(..).unwrap() panics when the receiving task is gone.
SendPanics(event) == \E a \in Recipients(event) : conn[a] = "dead"

\* One pass of the loop body: the write lock is held while the queue is
\* drained, so no handler runs in between and the pass is one step.
Tick ==
    /\ ~poisoned
    /\ drain = None
    /\ state.events # <<>>
    /\ LET bad == {k \in DOMAIN state.events : SendPanics(state.events[k])} IN
       IF bad = {}
       THEN /\ state' = [state EXCEPT !.events = <<>>]
            /\ UNCHANGED poisoned
       ELSE LET k == CHOOSE i \in bad : \A j \in bad : i <= j IN
            /\ state' = [state EXCEPT !.events = SubSeq(@, k + 1, Len(@))]
            /\ poisoned' = TRUE
    /\ UNCHANGED <<conn, regs, created, last_update_room, last_ships, drain>>

\* The same pass step by step. TickLock: state.write().unwrap() (main.rs:88)
\* with a queue that is not empty (with an empty queue the guard is dropped
\* at once).
TickLock ==
    /\ ~poisoned
    /\ drain = None
    /\ state.events # <<>>
    /\ drain' = Some([start |-> state.events, sent |-> <<>>])
    /\ UNCHANGED <<state, poisoned, conn, regs, created, last_update_room, last_ships>>

\* One iteration of the while loop: dequeue the head and send it to its
\* recipients; a failed send panics with the guard alive.
TickSend ==
    /\ ~poisoned
    /\ IsSome(drain)
    /\ state.events # <<>>
    /\ LET event == Head(state.events) IN
       /\ state' = [state EXCEPT !.events = Tail(@)]
       /\ IF SendPanics(event)
          THEN poisoned' = TRUE /\ UNCHANGED drain
          ELSE /\ UNCHANGED poisoned
               /\ drain' = Some([Unwrap(drain) EXCEPT !.sent = Append(@, event)])
    /\ UNCHANGED <<conn, regs, created, last_update_room, last_ships>>

\* dequeue() returned None: the loop ends and the guard is dropped.
TickUnlock ==
    /\ ~poisoned
    /\ IsSome(drain)
    /\ state.events = <<>>
    /\ drain' = None
    /\ UNCHANGED <<state, poisoned, conn, regs, created, last_update_room, last_ships>>

\* ------------------------------------------------------------------ specification
Next ==
    \/ \E a \in Addrs : Connect(a)
    \/ \E a \in Addrs : HandleReg(a, NameOf(a))
    \/ \E a \in Addrs : \E coin \in BOOLEAN : HandleCreate(a, coin)
    \/ \E a \in Addrs : \E g \in (DOMAIN state.games) \cup {NoSuchGame} : HandleAddUser(a, g)
    \/ \E a \in Addrs : \E l \in FewShipLists : HandleAddShips(a, l)
    \/ \E a \in Addrs : Disconnect(a)
    \/ Tick

Spec == Init /\ [][Next]_vars

\* ------------------------------------------------------------------ drain
\* The handlers next to the drain task taken one loop iteration at a time.
DrainNext ==
    \/ \E a \in Addrs : Connect(a)
    \/ \E a \in Addrs : HandleReg(a, NameOf(a))
    \/ \E a \in Addrs : \E coin \in BOOLEAN : HandleCreate(a, coin)
    \/ \E a \in Addrs : \E g \in (DOMAIN state.games) \cup {NoSuchGame} : HandleAddUser(a, g)
    \/ \E a \in Addrs : \E l \in FewShipLists : HandleAddShips(a, l)
    \/ \E a \in Addrs : Disconnect(a)
    \/ TickLock
    \/ TickSend
    \/ TickUnlock

DrainSpec == Init /\ [][DrainNext]_vars

\* ------------------------------------------------------------------ placement
\* Two registered clients seated in one game in PlacingShips with the queue
\* drained (reached in Spec by connect, reg, connect, reg, create_room,
\* add_user_to_room, tick), from which they send every ship list.
BoardPlayers == {"a1", "a2"}

BoardInitState ==
    LET u1 == [id |-> <<"a1", 1>>, name |-> NameOf("a1"), addr |-> "a1",
               wins |-> 0, in_room |-> None]
        u2 == [id |-> <<"a2", 1>>, name |-> NameOf("a2"), addr |-> "a2",
               wins |-> 0, in_room |-> None]
        s1 == add_user(add_user(StateDefault, u1).s, u2).s
        s2 == create_game(s1, u1, <<"a1", 1>>, TRUE).s
        s3 == join_game(s2, <<"a1", 1>>, u2, FALSE, FALSE).s
    IN [s3 EXCEPT !.events = <<>>]

BoardInit ==
    /\ state = BoardInitState
    /\ poisoned = FALSE
    /\ conn = [a \in Addrs |-> IF a \in BoardPlayers THEN "open" ELSE "closed"]
    /\ regs = [a \in Addrs |-> IF a \in BoardPlayers THEN 1 ELSE 0]
    /\ created = [a \in Addrs |-> IF a = "a1" THEN 1 ELSE 0]
    /\ last_update_room = Some({})
    /\ last_ships = None
    /\ drain = None

BoardNext ==
    \E a \in BoardPlayers : \E l \in AllShipLists : HandleAddShips(a, l)

BoardSpec == BoardInit /\ [][BoardNext]_vars

\* The starting state of BoardSpec is a state of Spec.
BoardInitUnreached == ~BoardInit

\* ------------------------------------------------------------------ claims
\* The sessions of directory s in which user id u is seated.
SeatsOf(s, u) ==
    {g \in DOMAIN s.games : s.games[g].player1 = Some(u) \/ s.games[g].player2 = Some(u)}

\* C1: in every reachable state each user id is seated (as player1 or
\* player2) in at most one session of the session directory.
C1_OneSessionPerUser ==
    \A u \in UserIds : Cardinality(SeatsOf(state, u)) <= 1

\* Two sessions are in the directory, one of them with both seats taken, and
\* every seated user sits in exactly one of them.
C1_Witness ==
    /\ Cardinality(DOMAIN state.games) = 2
    /\ \E g \in DOMAIN state.games : IsSome(state.games[g].player2)
    /\ \A g \in DOMAIN state.games :
           Cardinality(SeatsOf(state, Unwrap(state.games[g].player1))) = 1

\* The user record of the client at address a (a must be registered).
UserAt(s, a) == s.users[s.user_ids[a]]
Registered(s, a) == a \in DOMAIN s.user_ids /\ s.user_ids[a] \in DOMAIN s.users

\* C2: a join_room on a session whose player2 is already set fails (RoomFull):
\* the session's player2 and status, the joining user's current room and every
\* other user's record are left unchanged.
C2_ThirdJoinRejected ==
    [][\A a \in Addrs : \A g \in DOMAIN state.games :
          (HandleAddUser(a, g) /\ IsSome(state.games[g].player2))
              => /\ g \in DOMAIN state'.games
                 /\ state'.games[g].player2 = state.games[g].player2
                 /\ state'.games[g].status = state.games[g].status
                 /\ state'.users = state.users]_vars

\* C3: a join_room naming a session id that is not in the directory is rejected
\* (RoomNotFound): users, sessions and the event queue are unchanged and the
\* Registry does not panic, so its lock stays usable.
C3_MissingRoomRejected ==
    [][\A a \in Addrs :
          (HandleAddUser(a, NoSuchGame) /\ Registered(state, a))
              => (state' = state /\ ~poisoned')]_vars

\* C4: register is idempotent per connection. A Register from a connection
\* that already has a user leaves the user directory and the connection index
\* (hence that user's id, name, wins and current room) unchanged; a Register
\* from a connection without a user creates exactly one user, under an id never
\* issued before, with wins = 0 and no current room, and indexes it under the
\* connection.
C4_RegisterIdempotent ==
    [][\A a \in Addrs :
          HandleReg(a, NameOf(a)) =>
              IF Registered(state, a)
              THEN /\ state'.users = state.users
                   /\ state'.user_ids = state.user_ids
              ELSE \E id \in UserIds :
                   /\ id[2] > regs[id[1]]
                   /\ id \notin DOMAIN state.users
                   /\ DOMAIN state'.users = (DOMAIN state.users) \cup {id}
                   /\ \A u \in DOMAIN state.users : state'.users[u] = state.users[u]
                   /\ state'.users[id] = [id |-> id, name |-> NameOf(a), addr |-> a,
                                          wins |-> 0, in_room |-> None]
                   /\ DOMAIN state'.user_ids = (DOMAIN state.user_ids) \cup {a}
                   /\ \A b \in DOMAIN state.user_ids : state'.user_ids[b] = state.user_ids[b]
                   /\ state'.user_ids[a] = id]_vars

\* A registered client that holds a room sits next to a second registered
\* client: both branches of register have a case.
C4_Witness ==
    \E a \in Addrs : \E b \in Addrs \ {a} :
        /\ Registered(state, a) /\ Registered(state, b)
        /\ conn[a] = "open"
        /\ UserAt(state, a).wins = 0
        /\ IsSome(UserAt(state, a).in_room)
        /\ UserAt(state, b).in_room = None

\* The current room of the client at a resolves to a session of the directory.
InRoom(s, a) ==
    /\ IsSome(UserAt(s, a).in_room)
    /\ Unwrap(UserAt(s, a).in_room) \in DOMAIN s.games

\* C5: create_room or join_room by a user whose current room resolves to a
\* session of the directory fails (AlreadyInRoom) with no state change: no
\* session created or modified, current room unchanged, no event enqueued.
\* When the current room does not resolve the command is accepted: create_room
\* adds a session with the user as player1, join_room of a session of the
\* directory seats the user as player2, and the session becomes the user's
\* current room.
C5_AlreadyInRoom ==
    [][\A a \in Addrs :
          Registered(state, a) =>
              /\ \A coin \in BOOLEAN :
                     HandleCreate(a, coin) =>
                         IF InRoom(state, a)
                         THEN state' = state
                         ELSE \E g \in GameIds \ DOMAIN state.games :
                              /\ DOMAIN state'.games = (DOMAIN state.games) \cup {g}
                              /\ state'.games[g].player1 = Some(UserAt(state, a).id)
                              /\ UserAt(state', a).in_room = Some(g)
              /\ \A g \in DOMAIN state.games :
                     HandleAddUser(a, g) =>
                         IF InRoom(state, a)
                         THEN state' = state
                         ELSE /\ state'.games[g].player2 = Some(UserAt(state, a).id)
                              /\ UserAt(state', a).in_room = Some(g)]_vars

\* The user of a's first registration owns the room of a's second game uuid:
\* the first uuid went to a create_room made or refused earlier, so the user
\* had a current room, and it no longer resolved when this room was created.
C5_Witness ==
    \E a \in Addrs :
        /\ Registered(state, a)
        /\ UserAt(state, a).id = <<a, 1>>
        /\ UserAt(state, a).in_room = Some(<<a, 2>>)
        /\ <<a, 2>> \in DOMAIN state.games
        /\ state.games[<<a, 2>>].player1 = Some(<<a, 1>>)

\* C6: a successful join_room by user B on a Waiting session owned by another
\* user A sets player2 = B, leaves player1 = A, moves the status to
\* PlacingShips, records the session as B's current room, and the update_room
\* event the join enqueues does not list the session.
C6_JoinSeatsPlayer2 ==
    [][\A a \in Addrs : \A g \in DOMAIN state.games :
          (/\ HandleAddUser(a, g)
           /\ Registered(state, a)
           /\ ~InRoom(state, a)
           /\ state.games[g].status = "Waiting"
           /\ state.games[g].player1 # Some(UserAt(state, a).id))
              => /\ state'.games[g].player2 = Some(UserAt(state, a).id)
                 /\ state'.games[g].player1 = state.games[g].player1
                 /\ state'.games[g].status = "PlacingShips"
                 /\ UserAt(state', a).in_room = Some(g)
                 /\ Len(state'.events) > Len(state.events)
                 /\ LET e == state'.events[Len(state'.events)] IN
                        /\ e.json.type = "update_room"
                        /\ \A r \in e.json.data : r.roomId # g]_vars

\* The events of a join are still queued: create_game, then an update_room
\* that does not list the session, now in PlacingShips with both seats taken.
C6_Witness ==
    \E g \in DOMAIN state.games :
        /\ state.games[g].status = "PlacingShips"
        /\ IsSome(state.games[g].player2)
        /\ state.games[g].player2 # state.games[g].player1
        /\ Unwrap(state.games[g].player2) \in DOMAIN state.users
        /\ state.users[Unwrap(state.games[g].player2)].in_room = Some(g)
        /\ Len(state.events) >= 2
        /\ state.events[Len(state.events) - 1].json.type = "create_game"
        /\ state.events[Len(state.events)].json.type = "update_room"
        /\ \A r \in state.events[Len(state.events)].json.data : r.roomId # g

\* C7: the disconnect of a connection whose user is seated in a session removes
\* the user from the directory and from the connection index, removes that
\* session, and enqueues an update_room that does not list it; the sessions the
\* user is not seated in are untouched.
C7_DisconnectClosesSession ==
    [][\A a \in Addrs :
          (Disconnect(a) /\ Registered(state, a)) =>
              \A g \in SeatsOf(state, UserAt(state, a).id) :
                  /\ UserAt(state, a).id \notin DOMAIN state'.users
                  /\ a \notin DOMAIN state'.user_ids
                  /\ g \notin DOMAIN state'.games
                  /\ \E k \in (Len(state.events) + 1)..Len(state'.events) :
                         /\ state'.events[k].json.type = "update_room"
                         /\ \A r \in state'.events[k].json.data : r.roomId # g
                  /\ \A h \in (DOMAIN state.games) \ SeatsOf(state, UserAt(state, a).id) :
                         /\ h \in DOMAIN state'.games
                         /\ state'.games[h] = state.games[h]]_vars

\* Client a registered once, was issued one game uuid and has disconnected;
\* its room is gone. Client b registered once and is still registered, so it
\* never disconnected, and its room is still there; the third client never
\* registered. Only a's disconnect can have closed a session.
C7_Witness ==
    \E a \in Addrs : \E b \in Addrs \ {a} :
        /\ conn[a] = "closed" /\ regs[a] = 1 /\ created[a] = 1
        /\ <<a, 1>> \notin DOMAIN state.games
        /\ regs[b] = 1 /\ Registered(state, b)
        /\ SeatsOf(state, UserAt(state, b).id) = {<<b, 1>>}
        /\ \A c \in Addrs \ {a, b} : regs[c] = 0

\* The lobby the directory s calls for: every Waiting session with the id and
\* name of each seated player.
ExpectedLobby(s) ==
    LET seat(o) == IF o = None
                   THEN <<>>
                   ELSE <<[name |-> IF Unwrap(o) \in DOMAIN s.users
                                    THEN s.users[Unwrap(o)].name
                                    ELSE "",
                           index |-> Unwrap(o)]>>
    IN {[roomId |-> g,
         roomUsers |-> seat(s.games[g].player1) \o seat(s.games[g].player2)] :
            g \in {h \in DOMAIN s.games : s.games[h].status = "Waiting"}}

\* C8: whenever an update_room event has been enqueued, the one enqueued last
\* lists exactly the Waiting sessions of the directory, each with the ids and
\* names of exactly its seated players.
C8_LobbyMatchesDirectory ==
    IsSome(last_update_room) => Unwrap(last_update_room) = ExpectedLobby(state)

\* The queue is drained, one session waits in the lobby and another one has
\* left it for PlacingShips.
C8_Witness ==
    /\ state.events = <<>>
    /\ IsSome(last_update_room)
    /\ Cardinality(Unwrap(last_update_room)) = 1
    /\ \E g \in DOMAIN state.games : state.games[g].status = "PlacingShips"

\* The grid cells a ship covers: hp consecutive cells from its anchor, downward
\* if vertical, rightward otherwise.
Covered(ship) ==
    {[x |-> ship.position.x + (IF ship.is_vertical THEN 0 ELSE j),
      y |-> ship.position.y + (IF ship.is_vertical THEN j ELSE 0)] :
        j \in 0..(ship.hp - 1)}

InGrid(ship) ==
    \A c \in Covered(ship) : c.x < BOARD_SIZE /\ c.y < BOARD_SIZE

Disjoint(ships) ==
    \A i \in 1..Len(ships) : \A j \in 1..Len(ships) :
        i # j => Covered(ships[i]) \cap Covered(ships[j]) = {}

ValidShipLists ==
    {l \in AllShipLists : Disjoint(l) /\ \A i \in 1..Len(l) : InGrid(l[i])}

\* The board of the player at address a in the session of its current room.
BoardOf(s, a) ==
    LET game == s.games[Unwrap(UserAt(s, a).in_room)] IN
    IF game.player1 = Some(UserAt(s, a).id) THEN game.p1_board ELSE game.p2_board

\* C9: submit_ships with a list in which some ship extends outside the grid or
\* covers a cell covered by another ship of the list fails, and the submitting
\* player's board is unchanged: all cells stay Empty and the ship list stays
\* empty.
C9_InvalidPlacementRejected ==
    [][\A a \in BoardPlayers :
          (/\ BoardOf(state, a) = BoardDefault
           /\ IsSome(last_ships')
           /\ Unwrap(last_ships') \notin ValidShipLists
           /\ HandleAddShips(a, Unwrap(last_ships')))
              => BoardOf(state', a) = BoardDefault]_vars

\* C10: for every list of pairwise non-overlapping, in-bounds ships submitted
\* to an empty board the placement succeeds: the board's ship list is the
\* submitted list in order, the cells covered by ship number i are exactly the
\* cells marked Alive(i), and every other cell is Empty.
C10_ValidPlacementCommitted ==
    [][\A a \in BoardPlayers :
          (/\ BoardOf(state, a) = BoardDefault
           /\ IsSome(last_ships')
           /\ Unwrap(last_ships') \in ValidShipLists
           /\ HandleAddShips(a, Unwrap(last_ships')))
              => /\ ~poisoned'
                 /\ BoardOf(state', a).ships = Unwrap(last_ships')
                 /\ \A k \in 0..(NumCells - 1) :
                        LET l == Unwrap(last_ships')
                            at == [x |-> k % BOARD_SIZE, y |-> k \div BOARD_SIZE]
                            owners == {i \in 1..Len(l) : at \in Covered(l[i])}
                        IN IF owners = {}
                           THEN BoardOf(state', a).cells[k] = Empty
                           ELSE \A i \in owners :
                                    BoardOf(state', a).cells[k] = Alive(i - 1)]_vars

\* A board holds two ships of one valid list, the second of length 2 and
\* marked with index 1 on both of its cells.
C10_Witness ==
    \E a \in BoardPlayers :
        LET b == BoardOf(state, a) IN
        /\ b.ships \in ValidShipLists
        /\ Len(b.ships) = 2
        /\ b.ships[2].hp = 2
        /\ \A c \in Covered(b.ships[2]) : b.cells[c.x + c.y * BOARD_SIZE] = Alive(1)
        /\ \A c \in Covered(b.ships[1]) : b.cells[c.x + c.y * BOARD_SIZE] = Alive(0)

\* The session of the current room of the client at a, and the board in it
\* that is not a's.
GameOf(s, a) == s.games[Unwrap(UserAt(s, a).in_room)]

OtherBoardOf(s, a) ==
    IF GameOf(s, a).player1 = Some(UserAt(s, a).id)
    THEN GameOf(s, a).p2_board
    ELSE GameOf(s, a).p1_board

\* C11: once both players of a session in PlacingShips have submitted their
\* ships successfully the status becomes Started, and the status is never
\* Started while a board has no committed placement.
C11_StartedWhenBothPlaced ==
    [][/\ \A a \in BoardPlayers :
              (/\ GameOf(state, a).status = "PlacingShips"
               /\ BoardOf(state, a) = BoardDefault
               /\ OtherBoardOf(state, a).ships \in ValidShipLists \ {<<>>}
               /\ IsSome(last_ships')
               /\ Unwrap(last_ships') \in ValidShipLists \ {<<>>}
               /\ HandleAddShips(a, Unwrap(last_ships')))
                  => GameOf(state', a).status = "Started"
       /\ \A g \in DOMAIN state'.games :
              state'.games[g].status = "Started"
                  => /\ state'.games[g].p1_board.ships # <<>>
                     /\ state'.games[g].p2_board.ships # <<>>]_vars

\* C12: submit_ships changes only the board of the submitting user: player1's
\* submission leaves player2's board as it was and vice versa, and the
\* submission of a user who is neither player of the session of its current
\* room (NotAPlayer) changes no board.
C12_OnlyOwnBoardChanges ==
    [][\A a \in Addrs :
          (/\ Registered(state, a)
           /\ InRoom(state, a)
           /\ IsSome(last_ships')
           /\ HandleAddShips(a, Unwrap(last_ships')))
              => LET g == Unwrap(UserAt(state, a).in_room)
                     old == state.games[g]
                     new == state'.games[g]
                     id == UserAt(state, a).id
                 IN /\ old.player1 = Some(id) => new.p2_board = old.p2_board
                    /\ old.player2 = Some(id) => new.p1_board = old.p1_board
                    /\ (old.player1 # Some(id) /\ old.player2 # Some(id))
                           => /\ new.p1_board = old.p1_board
                              /\ new.p2_board = old.p2_board]_vars

\* C16: submit_ships is accepted only while the session is in PlacingShips:
\* in any other status (the owner submitting while the session still waits
\* for a second player) it fails with WrongPhase and leaves both boards and
\* the status unchanged.
C16_WrongPhaseRejected ==
    [][\A a \in Addrs :
          (/\ Registered(state, a)
           /\ InRoom(state, a)
           /\ GameOf(state, a).status # "PlacingShips"
           /\ IsSome(last_ships')
           /\ HandleAddShips(a, Unwrap(last_ships')))
              => /\ GameOf(state', a).p1_board = GameOf(state, a).p1_board
                 /\ GameOf(state', a).p2_board = GameOf(state, a).p2_board
                 /\ GameOf(state', a).status = GameOf(state, a).status]_vars

\* The cell grid of board b is the projection of its ship list: a cell is
\* Alive(i) exactly when the ship at position i of the list (counted from 0)
\* covers it, and is Empty otherwise.
IsProjection(b) ==
    \A k \in 0..(NumCells - 1) :
        LET at == [x |-> k % BOARD_SIZE, y |-> k \div BOARD_SIZE] IN
        /\ b.cells[k] \in {Empty} \cup {Alive(i) : i \in 0..(Len(b.ships) - 1)}
        /\ \A i \in 0..(Len(b.ships) - 1) :
               b.cells[k] = Alive(i) <=> at \in Covered(b.ships[i + 1])

\* C17: for each player's board the cell grid is the projection of the ship
\* list, after any sequence of submit_ships calls, and a second submission
\* does not change a board that is already placed.
C17_GridIsProjection ==
    [][/\ \A g \in DOMAIN state'.games :
              /\ IsProjection(state'.games[g].p1_board)
              /\ IsProjection(state'.games[g].p2_board)
       /\ \A a \in BoardPlayers :
              (/\ BoardOf(state, a).ships # <<>>
               /\ IsSome(last_ships')
               /\ HandleAddShips(a, Unwrap(last_ships')))
                  => BoardOf(state', a) = BoardOf(state, a)]_vars

\* C18: a submit_ships from a registered user with no current room, or whose
\* current room is no longer in the directory, and any room or game command
\* from a connection that never registered, is rejected with the state
\* unchanged and without a panic: the connection's task goes on and the lock
\* stays usable.
C18_MissingLookupRejected ==
    [][\A a \in Addrs :
          LET rejected == /\ state' = state
                          /\ ~poisoned'
                          /\ conn'[a] = "open"
          IN /\ (/\ IsSome(last_ships')
                 /\ HandleAddShips(a, Unwrap(last_ships'))
                 /\ (Registered(state, a) => ~InRoom(state, a)))
                    => rejected
             /\ \A coin \in BOOLEAN :
                    (HandleCreate(a, coin) /\ ~Registered(state, a)) => rejected
             /\ \A g \in (DOMAIN state.games) \cup {NoSuchGame} :
                    (HandleAddUser(a, g) /\ ~Registered(state, a)) => rejected]_vars

\* C14: a successful join_room enqueues the create_game notification as
\* addressed events, one to player1's connection and one to player2's, and
\* never as a broadcast; on delivery a broadcast goes to every connection of
\* peer_map and an addressed event to the one connection it names.
C14_GameCreatedAddressed ==
    [][/\ \A a \in Addrs : \A g \in DOMAIN state.games :
              (/\ HandleAddUser(a, g)
               /\ Registered(state, a)
               /\ ~InRoom(state, a))
                  => LET added == (Len(state.events) + 1)..Len(state'.events)
                         notes == {k \in added :
                                      state'.events[k].json.type = "create_game"}
                         owner == Unwrap(state.games[g].player1)
                     IN /\ \A k \in notes : state'.events[k].kind = "User"
                        /\ \E k \in notes : state'.events[k].to = Some(a)
                        /\ owner \in DOMAIN state.users
                               => \E k \in notes :
                                      state'.events[k].to = Some(state.users[owner].addr)
       /\ \A k \in DOMAIN state.events :
              LET e == state.events[k] IN
              Recipients(e) = IF e.kind = "All"
                              THEN peer_map
                              ELSE {Unwrap(e.to)} \cap peer_map]_vars

\* C13: draining is a pop-all in enqueue order. Each loop iteration sends the
\* head of the queue and removes it; nothing is enqueued, dropped, duplicated
\* or reordered while a drain cycle runs; the cycle ends with every event
\* found at its start sent, in that order, and the queue without them.
C13_DrainPopsAllInOrder ==
    [][/\ TickSend
              => /\ ~poisoned'
                 /\ IsSome(drain')
                 /\ Unwrap(drain').sent = Append(Unwrap(drain).sent, Head(state.events))
                 /\ state'.events = Tail(state.events)
       /\ IsSome(drain')
              => Unwrap(drain').start = Unwrap(drain').sent \o state'.events
       /\ TickUnlock
              => /\ Unwrap(drain).sent = Unwrap(drain).start
                 /\ state'.events = <<>>]_vars

\* C19: the drain task sends events without holding the lock of State: in no
\* reachable state does an open connection's command wait because the drain
\* task holds the write guard.
C19_DrainOutsideLock ==
    \A a \in Addrs : (conn[a] = "open" /\ ~poisoned) => Serving(a)

\* The place of a status on the line Waiting, PlacingShips, Started, Finished.
Rank(status) ==
    CASE status = "Waiting" -> 0
      [] status = "PlacingShips" -> 1
      [] status = "Started" -> 2
      [] OTHER -> 3

\* C20: the status of a session only moves forward along Waiting,
\* PlacingShips, Started, Finished: no step takes a session of the directory
\* to an earlier status, and a session that has left Waiting is listed by no
\* update_room event enqueued afterwards.
C20_StatusMovesForward ==
    [][\A g \in (DOMAIN state.games) \cap (DOMAIN state'.games) :
          /\ Rank(state'.games[g].status) >= Rank(state.games[g].status)
          /\ state.games[g].status # "Waiting"
                 => \A k \in (Len(state.events) + 1)..Len(state'.events) :
                        state'.events[k].json.type = "update_room"
                            => \A r \in state'.events[k].json.data : r.roomId # g]_vars

\* A session in PlacingShips has been joined a second time: the user of its
\* first joiner still names it as current room but holds no seat in it, and
\* the second join's update_room event is still queued.
C20_Witness ==
    \E g \in DOMAIN state.games : \E u \in DOMAIN state.users :
        /\ state.games[g].status = "PlacingShips"
        /\ state.users[u].in_room = Some(g)
        /\ state.games[g].player1 # Some(u)
        /\ state.games[g].player2 # Some(u)
        /\ state.events # <<>>
        /\ state.events[Len(state.events)].json.type = "update_room"

\* C21: every session of the directory has a player1, and each seated player
\* id (player1, and player2 when set) is a user of the directory whose current
\* room is that session and whose address maps back to it in the connection
\* index; hence no session outlives the disconnect of a seated player, which
\* removes that user.
C21_SeatsResolve ==
    \A g \in DOMAIN state.games :
        /\ IsSome(state.games[g].player1)
        /\ \A seat \in {state.games[g].player1, state.games[g].player2} :
               IsSome(seat)
                   => /\ Unwrap(seat) \in DOMAIN state.users
                      /\ state.users[Unwrap(seat)].in_room = Some(g)
                      /\ state.users[Unwrap(seat)].addr \in DOMAIN state.user_ids
                      /\ state.user_ids[state.users[Unwrap(seat)].addr] = Unwrap(seat)

\* Client a registered, created its one room and disconnected, and the room
\* is gone with its user; another session has both seats taken.
C21_Witness ==
    \E a \in Addrs : \E g \in DOMAIN state.games :
        /\ conn[a] = "closed" /\ regs[a] = 1 /\ created[a] = 1
        /\ <<a, 1>> \notin DOMAIN state.games
        /\ <<a, 1>> \notin DOMAIN state.users
        /\ IsSome(state.games[g].player2)
        /\ state.games[g].player2 # state.games[g].player1

====
